---------------------------- MODULE Spec2Model ----------------------------
(***************************************************************************)
(* ProcureFlow procurement chatbot (procureflow.py).                       *)
(*                                                                         *)
(* The program is a Streamlit script: every user interaction (a submitted  *)
(* chat message, a click on "Reload Data") re-executes the script from top *)
(* to bottom.  st.session_state.messages and the st.cache_data entry of    *)
(* load_qa survive between executions; every other name of the script is   *)
(* recomputed by each execution.  One action of this module is one         *)
(* execution of the script.                                                *)
(*                                                                         *)
(* Text is a sequence of one-character strings.  The fixed text of the     *)
(* f-string templates is written as one multi-character token per piece    *)
(* (for instance "T_PREAMBLE"), except for the characters that the         *)
(* program's escaping or the SQL string literal treat specially, which     *)
(* stay characters of their own.                                           *)
(***************************************************************************)
EXTENDS Integers, Sequences, FiniteSets, TLC

VARIABLES
    table,            \* rows of PROCURE_TABLE in the database (environment)
    cache,            \* st.cache_data entry of load_qa: <<df>> or <<>> when cleared
    cortex_enabled,   \* result of check_cortex() in the latest script execution
    messages,         \* st.session_state.messages
    runs,             \* number of script executions so far
    probeRequests,    \* number of probe queries sent by check_cortex so far
    last              \* what the latest script execution did (locals of the script)

vars == <<table, cache, cortex_enabled, messages, runs, probeRequests, last>>

-----------------------------------------------------------------------------
(* Bounds *)

MaxRuns == 4          \* script executions explored in the chat specification
MaxLen == 2           \* longest text drawn for questions and user messages
MaxCorpus == 2        \* most rows drawn for PROCURE_TABLE

-----------------------------------------------------------------------------
(* Text helpers *)

Min(a, b) == IF a < b THEN a ELSE b

\* The element of a one-element set.  The(Op(x) : x \in {e}) applies Op to
\* the value of e, computed once.
The(S) == CHOOSE x \in S : TRUE

RECURSIVE GCD(_, _)
GCD(a, b) == IF b = 0 THEN a ELSE GCD(b, a % b)

\* All texts over alphabet A of length 0..n
TextsUpTo(A, n) == UNION {[1..k -> A] : k \in 0..n}

\* All sequences over S of length 0..n
SeqsUpTo(S, n) == UNION {[1..k -> S] : k \in 0..n}

\* s[i..] starts with pat
StartsWithAt(s, i, pat) ==
    /\ i + Len(pat) - 1 <= Len(s)
    /\ \A k \in 1..Len(pat) : s[i + k - 1] = pat[k]

\* pat occurs in s as a contiguous run
Contains(s, pat) == \E i \in 1..(Len(s) + 1) : StartsWithAt(s, i, pat)

IsPrefix(s, t) == Len(s) <= Len(t) /\ SubSeq(t, 1, Len(s)) = s

\* str.lower() on the characters of the model
LowerChar(c) == IF c = "A" THEN "a" ELSE IF c = "B" THEN "b" ELSE c
Lower(s) == [i \in 1..Len(s) |-> LowerChar(s[i])]

\* str.strip(): drop leading and trailing whitespace
RECURSIVE LStrip(_)
LStrip(s) == IF s # <<>> /\ Head(s) = " " THEN LStrip(Tail(s)) ELSE s
RECURSIVE RStrip(_)
RStrip(s) == IF s # <<>> /\ s[Len(s)] = " " THEN RStrip(SubSeq(s, 1, Len(s) - 1)) ELSE s
Strip(s) == RStrip(LStrip(s))

\* str.replace(old, new): left to right, non-overlapping occurrences
RECURSIVE Replace(_, _, _)
Replace(s, old, new) ==
    IF s = <<>> THEN <<>>
    ELSE IF StartsWithAt(s, 1, old)
         THEN new \o Replace(SubSeq(s, Len(old) + 1, Len(s)), old, new)
         ELSE <<Head(s)>> \o Replace(Tail(s), old, new)

-----------------------------------------------------------------------------
(* difflib.SequenceMatcher(None, a, b).ratio(), as called at line 61.      *)
(* No junk predicate is given and the autojunk heuristic only applies to   *)
(* texts of 200 or more characters, so every character takes part.         *)

\* Blocks <<i, j, k>> with a[i..i+k-1] = b[j..j+k-1], k >= 1
MatchingBlocks(a, b) ==
    {blk \in (1..Len(a)) \X (1..Len(b)) \X (1..Min(Len(a), Len(b))) :
        /\ blk[1] + blk[3] - 1 <= Len(a)
        /\ blk[2] + blk[3] - 1 <= Len(b)
        /\ SubSeq(a, blk[1], blk[1] + blk[3] - 1) = SubSeq(b, blk[2], blk[2] + blk[3] - 1)}

\* find_longest_match: the longest block; of those the earliest in a; of
\* those the earliest in b.  Only used when there is a block.
LongestOf(blocks) ==
    CHOOSE blk \in blocks :
        \A o \in blocks :
            \/ o[3] < blk[3]
            \/ o[3] = blk[3] /\ blk[1] < o[1]
            \/ o[3] = blk[3] /\ blk[1] = o[1] /\ blk[2] <= o[2]

find_longest_match(a, b) == LongestOf(MatchingBlocks(a, b))

\* get_matching_blocks: total size of the longest block <<i, j, k>> and,
\* recursively, of the blocks found to its left and to its right.
RECURSIVE Matches(_, _)
MatchesAround(a, b, blk) ==
    blk[3] + Matches(SubSeq(a, 1, blk[1] - 1), SubSeq(b, 1, blk[2] - 1))
           + Matches(SubSeq(a, blk[1] + blk[3], Len(a)), SubSeq(b, blk[2] + blk[3], Len(b)))

Matches(a, b) ==
    IF MatchingBlocks(a, b) = {} THEN 0
    ELSE The({MatchesAround(a, b, blk) : blk \in {find_longest_match(a, b)}})

\* ratio() = 2.0 * matches / length with length = len(a) + len(b), and 1.0
\* when both are empty.  The float is kept as the fraction
\* <<numerator, denominator>> in lowest terms: for these small integers two
\* ratios are the same float exactly when they are the same fraction, and
\* they compare as the fractions do.
Fraction(m2, length) ==
    IF length = 0 THEN <<1, 1>>
    ELSE IF m2 = 0 THEN <<0, 1>>
    ELSE <<m2 \div GCD(m2, length), length \div GCD(m2, length)>>

ratio(a, b) == The({Fraction(2 * m, Len(a) + Len(b)) : m \in {Matches(a, b)}})

\* float comparison s < t and s <= t on the fractions
ScoreLt(s, t) == s[1] * t[2] < t[1] * s[2]
ScoreLe(s, t) == s[1] * t[2] <= t[1] * s[2]

-----------------------------------------------------------------------------
(* load_qa and best_match *)

\* load_qa (lines 43-46): select the two columns, strip both.
load_qa(rows) ==
    [i \in 1..Len(rows) |->
        [QUESTION |-> Strip(rows[i].QUESTION), ANSWER |-> Strip(rows[i].ANSWER)]]

\* lines 57-62: one score per row, in row order
ScoresOf(cleaned, df) == [i \in 1..Len(df) |-> ratio(cleaned, Lower(df[i].QUESTION))]

Scores(user_input, df) == ScoresOf(Strip(Lower(user_input)), df)

\* max(scores): the first of the largest elements
MaxScore(scores) ==
    LET i == CHOOSE i \in 1..Len(scores) :
                 \A j \in 1..Len(scores) : ScoreLe(scores[j], scores[i])
    IN scores[i]

\* A scores.index that finds the last index holding x
IndexOf_last(scores, x) ==
    CHOOSE i \in 1..Len(scores) :
        /\ scores[i] = x
        /\ \A j \in (i + 1)..Len(scores) : scores[j] # x

\* scores.index(x): the smallest index holding x
IndexOf(scores, x) ==
    CHOOSE i \in 1..Len(scores) :
        /\ scores[i] = x
        /\ \A j \in 1..(i - 1) : scores[j] # x

\* lines 64-65: the row at best_index and the largest score.  max() of an
\* empty list raises ValueError.
BestOf(df, scores) ==
    IF Len(scores) = 0
    THEN [raised |-> TRUE, q |-> <<>>, a |-> <<>>, score |-> <<0, 1>>]
    ELSE [raised |-> FALSE,
          q |-> df[IndexOf(scores, MaxScore(scores))].QUESTION,
          a |-> df[IndexOf(scores, MaxScore(scores))].ANSWER,
          score |-> MaxScore(scores)]

\* best_match (lines 56-65).  The function has no handler, so the ValueError
\* leaves it.
best_match(user_input, df) ==
    The({BestOf(df, scores) : scores \in {Scores(user_input, df)}})

-----------------------------------------------------------------------------
(* Prompt composition and the completion query *)

\* The confidence limit named by the prompt text (lines 120-121): 0.60
Threshold == <<3, 5>>

Digit(n) == <<"0", "1", "2", "3", "4", "5", "6", "7", "8", "9">>[n + 1]

\* f"{score:.3f}": the score rounded to thousandths.  The float is rounded on
\* its exact value; for a ratio n/d that lies exactly half way between two
\* thousandths the float is exact only when d is a power of two, and such a
\* ratio needs len(a) + len(b) >= 16, beyond the texts explored here.  An
\* exact tie is rounded to the even thousandth as Python does.
RoundHalfEven(fl, rem2, d) ==
    IF rem2 > d \/ (rem2 = d /\ fl % 2 = 1) THEN fl + 1 ELSE fl

Thousandths(score) ==
    RoundHalfEven((1000 * score[1]) \div score[2], 2 * ((1000 * score[1]) % score[2]), score[2])

Render3(t) ==
    <<Digit(t \div 1000), ".", Digit((t \div 100) % 10), Digit((t \div 10) % 10), Digit(t % 10)>>

Fmt3(score) == Render3(Thousandths(score))

\* The two instructions of the template, lines 120 and 121.  The apostrophe
\* of "you're" is a character of the prompt like any other.
RefineInstruction == <<"T_IF_HIGH_REFINE_AND_EXPAND">>
ReasonInstruction == <<"T_IF_LOW_EXPLAIN_THAT_YOU", "'", "RE_USING_REASONING_INSTEAD">>

\* A composer that picks one instruction by the score
qa_context_branching(q, a, score, prompt) ==
    <<"T_PREAMBLE_QUESTION">> \o q
        \o <<"T_ANSWER">> \o a
        \o <<"T_MATCH_CONFIDENCE">> \o Fmt3(score)
        \o <<"T_USER_QUESTION">> \o prompt
        \o (IF ScoreLt(Threshold, score) THEN RefineInstruction ELSE ReasonInstruction)
        \o <<"T_PROVIDE_A_CLEAR_ANSWER">>

\* qa_context (lines 110-123)
qa_context(q, a, score, prompt) ==
    <<"T_PREAMBLE_QUESTION">> \o q
        \o <<"T_ANSWER">> \o a
        \o <<"T_MATCH_CONFIDENCE">> \o Fmt3(score)
        \o <<"T_USER_QUESTION">> \o prompt
        \o RefineInstruction
        \o ReasonInstruction
        \o <<"T_PROVIDE_A_CLEAR_ANSWER">>

\* An escape that puts a backslash before each quote
Escape_backslash(text) == Replace(text, <<"'">>, <<"\\", "'">>)

\* qa_context.replace("'", "''") (line 135)
Escape(text) == Replace(text, <<"'">>, <<"'", "'">>)

\* query (lines 132-137): the escaped prompt between the two quotes written
\* by the program.  OpenQuote is the position of the opening quote.
OpenQuote == 2
query(context) ==
    <<"SQL_SELECT_COMPLETE_MISTRAL_LARGE2", "'">> \o Escape(context) \o <<"'", "SQL_AS_RESPONSE">>

\* How the SQL engine that receives session.sql(query) (line 138) reads a
\* single-quoted string constant: a backslash takes the next character with
\* it, two quotes in a row are one quote of the text, and any other quote
\* ends the constant.  Position of the ending quote, 0 when none ends it.
RECURSIVE LiteralEndFrom(_, _)
LiteralEndFrom(sql, i) ==
    IF i > Len(sql) THEN 0
    ELSE IF sql[i] = "\\" THEN LiteralEndFrom(sql, i + 2)
    ELSE IF sql[i] = "'"
         THEN IF i < Len(sql) /\ sql[i + 1] = "'"
              THEN LiteralEndFrom(sql, i + 2)
              ELSE i
    ELSE LiteralEndFrom(sql, i + 1)

LiteralEnd(sql) == LiteralEndFrom(sql, OpenQuote + 1)

\* An error reply that is the bare failure text
error_msg_unmarked(e) == e

\* error_msg (line 148)
error_msg(e) == <<"ERR_CORTEX_ERROR">> \o e

\* fallback (line 158)
DisabledNotice == <<"T_CORTEX_IS_DISABLED">>
\* A fallback reply without the notice
fallback_without_notice(q, a) == <<"T_CLOSEST_MATCH">> \o q \o <<"T_ANSWER_BOLD">> \o a

fallback(q, a) == <<"T_CLOSEST_MATCH">> \o q \o <<"T_ANSWER_BOLD">> \o a \o DisabledNotice

User(content) == [role |-> "user", content |-> content]
Assistant(content) == [role |-> "assistant", content |-> content]

-----------------------------------------------------------------------------
(* Inputs *)

\* What session.sql(query).collect() of line 138 can do: return a row whose
\* RESPONSE is the generated text, or raise (a service error; an empty result
\* makes res[0] raise IndexError inside the same try).
Completed(text) == [ok |-> TRUE, text |-> text]
Raised(e) == [ok |-> FALSE, text |-> e]
Outcomes == {Completed(<<"R_GENERATED_TEXT">>), Raised(<<"E_SQL_ERROR">>), Raised(<<"E_LIST_INDEX">>)}
NoOutcome == Completed(<<>>)

\* Row i of a table with the given questions; the answer names its row.
Row(question, i) == [QUESTION |-> question, ANSWER |-> <<"ANSWER_OF_ROW", Digit(i)>>]
TableOf(questions) == [i \in 1..Len(questions) |-> Row(questions[i], i)]

\* st.chat_input returns a non-empty text; texts of blanks only are left out.
Messages(A, n) == {t \in TextsUpTo(A, n) : Strip(t) # <<>>}

\* The chat specification: a few tables (the empty one among them) and a few
\* messages.
ChatTables ==
    {<<>>, TableOf(<<<<"a", "b">>>>), TableOf(<<<<" ", "b">>, <<"a", "'">>>>)}
ChatMessages == {<<"a">>, <<"a", "'">>}

-----------------------------------------------------------------------------
(* The script *)

\* The locals of one execution of the script.  kind: what caused the
\* execution; raised: an exception left the script; completeRequests: the
\* completion queries carrying the prompt that the execution sent (line 138;
\* the probe query of line 76 is counted by probeRequests); logBefore:
\* st.session_state.messages as the execution found it.
NoLast ==
    [kind |-> "start", prompt |-> <<>>, df |-> <<>>, raised |-> FALSE,
     q |-> <<>>, a |-> <<>>, score |-> <<0, 1>>,
     qa_context |-> <<>>, query |-> <<>>,
     completeRequests |-> 0, outcome |-> NoOutcome, logBefore |-> <<>>]

\* df = load_qa() (line 49) under st.cache_data: the cached frame when there
\* is one, else the table as it is now, loaded and cached.
CachedLoad == IF cache = <<>> THEN load_qa(table) ELSE cache[1]

\* check_cortex (lines 71-82), run by every execution of the script: one
\* probe query is sent; it returns normally (True) or raises (False).
\* init_connection returns a session or raises, so session is never None.
check_cortex(probeOk) ==
    /\ probeRequests' = probeRequests + 1
    /\ cortex_enabled' = probeOk

\* The locals of an execution that processes a message
Locals(prompt, df) ==
    [NoLast EXCEPT !.kind = "message", !.prompt = prompt, !.df = df, !.logBefore = messages]

\* Lines 128-152, AI mode: one completion query; its RESPONSE, or the error
\* message of the exception it raised, is appended as the assistant entry.
CortexReply(log1, found, context, outcome) ==
    [log |-> Append(log1, Assistant(IF outcome.ok THEN outcome.text
                                                  ELSE error_msg(outcome.text))),
     last |-> [found EXCEPT !.query = query(context),
                            !.completeRequests = 1,
                            !.outcome = outcome]]

\* Lines 157-164, fallback mode
FallbackReply(log1, found, m) ==
    [log |-> Append(log1, Assistant(fallback(m.q, m.a))), last |-> found]

\* Lines 110-164, once best_match has returned m
Answer(prompt, log1, found, context, enabled, outcome, m) ==
    IF enabled                                                    \* line 128
    THEN CortexReply(log1, [found EXCEPT !.qa_context = context], context, outcome)
    ELSE FallbackReply(log1, [found EXCEPT !.qa_context = context], m)

\* Lines 103-164 with the result m of best_match (line 108).  When best_match
\* raised, the ValueError leaves the script: the execution ends there.
Handle(prompt, df, enabled, outcome, m) ==
    IF m.raised
    THEN [log |-> Append(messages, User(prompt)),
          last |-> [Locals(prompt, df) EXCEPT !.raised = TRUE]]
    ELSE Answer(prompt,
                Append(messages, User(prompt)),                   \* line 103
                [Locals(prompt, df) EXCEPT !.q = m.q, !.a = m.a, !.score = m.score],
                qa_context(m.q, m.a, m.score, prompt),            \* lines 110-123
                enabled, outcome, m)

\* Lines 102-164 for one submitted message: what the execution leaves in
\* st.session_state.messages and in its locals.
ChatTurn(prompt, df, enabled, outcome) ==
    The({Handle(prompt, df, enabled, outcome, m) : m \in {best_match(prompt, df)}})

\* One execution of the script caused by a submitted chat message.
SubmitMessage(prompt, probeOk, outcome) ==
    /\ runs < MaxRuns
    /\ runs' = runs + 1
    /\ cache' = <<CachedLoad>>
    /\ check_cortex(probeOk)
    /\ \E turn \in {ChatTurn(prompt, CachedLoad, probeOk, outcome)} :
           /\ messages' = turn.log
           /\ last' = turn.last
    /\ UNCHANGED table

\* A reload that also empties the conversation
ReloadData_reset(probeOk) ==
    /\ runs < MaxRuns
    /\ runs' = runs + 1
    /\ check_cortex(probeOk)
    /\ cache' = <<>>
    /\ messages' = <<>>
    /\ last' = [NoLast EXCEPT !.kind = "reload", !.df = CachedLoad, !.logBefore = <<>>]
    /\ UNCHANGED table

\* One execution of the script caused by a click on "Reload Data"
\* (lines 170-172): no message is processed, then load_qa.clear().
ReloadData(probeOk) ==
    /\ runs < MaxRuns
    /\ runs' = runs + 1
    /\ check_cortex(probeOk)
    /\ cache' = <<>>
    /\ last' = [NoLast EXCEPT !.kind = "reload", !.df = CachedLoad, !.logBefore = messages]
    /\ UNCHANGED <<table, messages>>

\* The rows of PROCURE_TABLE change in the database.
UpdateTable(rows) ==
    /\ rows # table
    /\ table' = rows
    /\ UNCHANGED <<cache, cortex_enabled, messages, runs, probeRequests, last>>

\* The state after the first execution of the script in a session: the table
\* loaded and cached, one probe sent, an empty conversation.
InitWith(tables) ==
    /\ table \in tables
    /\ cache = <<load_qa(table)>>
    /\ cortex_enabled \in BOOLEAN
    /\ messages = <<>>
    /\ runs = 1
    /\ probeRequests = 1
    /\ last = [NoLast EXCEPT !.df = load_qa(table)]

Init == InitWith(ChatTables)

Next ==
    \/ \E prompt \in ChatMessages, probeOk \in BOOLEAN, outcome \in Outcomes :
           SubmitMessage(prompt, probeOk, outcome)
    \/ \E probeOk \in BOOLEAN : ReloadData(probeOk)
    \/ \E rows \in ChatTables : UpdateTable(rows)

Spec == Init /\ [][Next]_vars

-----------------------------------------------------------------------------
(* Retrieval: one message against every table of up to MaxCorpus rows whose *)
(* questions are texts of up to MaxLen characters.  The service is off, so *)
(* the reply shows the match.                                              *)

MatchQuestions == TextsUpTo({"a", "B"}, MaxLen)
MatchTables == {TableOf(qs) : qs \in SeqsUpTo(MatchQuestions, MaxCorpus)}
MatchMessages ==
    {t \in TextsUpTo({"A", "b"}, MaxLen) : t # <<>>}
        \cup {<<" ">> \o t \o <<" ">> : t \in TextsUpTo({"A", "b"}, MaxLen) \ {<<>>}}

InitMatch == InitWith(MatchTables) /\ ~cortex_enabled

NextMatch ==
    \E prompt \in MatchMessages :
        runs = 1 /\ SubmitMessage(prompt, FALSE, NoOutcome)

SpecMatch == InitMatch /\ [][NextMatch]_vars

\* C5: on a non-empty corpus best_match returns the question and the answer
\* of one row; that row's score is the largest of all rows' scores and is the
\* score returned; no earlier row has that score.
C5_BestMatchIsFirstMaximum ==
    (last.kind = "message" /\ last.df # <<>>) =>
        /\ ~last.raised
        /\ \E scores \in {Scores(last.prompt, last.df)} :
               \E i \in 1..Len(last.df) :
                   /\ last.q = last.df[i].QUESTION
                   /\ last.a = last.df[i].ANSWER
                   /\ last.score = scores[i]
                   /\ \A j \in 1..Len(scores) : ScoreLe(scores[j], scores[i])
                   /\ \A j \in 1..(i - 1) : ScoreLt(scores[j], scores[i])

\* A message was matched against rows of which two share the largest score,
\* and the earlier of them was returned.
C5_Witness ==
    /\ last.kind = "message"
    /\ Len(last.df) >= 2
    /\ \E scores \in {Scores(last.prompt, last.df)} :
           /\ scores[1] = scores[2]
           /\ scores[1] # <<0, 1>>
           /\ last.score = scores[1]
           /\ last.a = last.df[1].ANSWER
           /\ last.df[1].QUESTION # last.df[2].QUESTION

\* C6 as stated: which instruction the prompt carries is decided by the
\* score: the refine instruction exactly when score > 0.60, the reasoning
\* instruction exactly when score <= 0.60.
C6_InstructionDecidedByScore ==
    (last.kind = "message" /\ ~last.raised) =>
        /\ Contains(last.qa_context, RefineInstruction) <=> ScoreLt(Threshold, last.score)
        /\ Contains(last.qa_context, ReasonInstruction) <=> ScoreLe(last.score, Threshold)

\* C6 amended: the prompt carries the score to three decimals and, whatever
\* the score, both instructions, the refine one first.
C6_BothInstructionsWhateverTheScore ==
    (last.kind = "message" /\ ~last.raised) =>
        \E i \in 1..Len(last.qa_context) :
            /\ StartsWithAt(last.qa_context, i, <<"T_MATCH_CONFIDENCE">> \o Fmt3(last.score))
            /\ \E j \in (i + 1)..Len(last.qa_context) :
                   /\ StartsWithAt(last.qa_context, j, <<"T_IF_HIGH_REFINE_AND_EXPAND">>)
                   /\ \E k \in (j + 1)..Len(last.qa_context) :
                          StartsWithAt(last.qa_context, k, <<"T_IF_LOW_EXPLAIN_THAT_YOU">>)

\* A prompt was composed for a score above 0.60 and carries the instruction
\* for low confidence.
C6_Witness ==
    /\ last.kind = "message"
    /\ ~last.raised
    /\ ScoreLt(Threshold, last.score)
    /\ ScoreLt(last.score, <<1, 1>>)
    /\ Contains(last.qa_context, ReasonInstruction)

-----------------------------------------------------------------------------
(* Escaping: one message, with the service on, against a one-row table     *)
(* whose question and answer hold quotes; the message may hold quotes and  *)
(* backslashes.                                                            *)

QuoteTexts == TextsUpTo({"a", "'"}, MaxLen)
QuoteTables == {<<[QUESTION |-> q, ANSWER |-> a]>> : q \in QuoteTexts, a \in QuoteTexts}
QuoteMessages == Messages({"a", "'", "\\"}, MaxLen)

InitEscape == InitWith(QuoteTables) /\ cortex_enabled

NextEscape ==
    \E prompt \in QuoteMessages, outcome \in Outcomes :
        runs = 1 /\ SubmitMessage(prompt, TRUE, outcome)

SpecEscape == InitEscape /\ [][NextEscape]_vars

\* The text between the two quotes written by the program
Interpolated(sql) == SubSeq(sql, OpenQuote + 1, Len(sql) - 2)

\* Reversing the escape: each doubled quote becomes one quote
Unescape(text) == Replace(text, <<"'", "'">>, <<"'">>)

\* C7: the escaped prompt stays inside one string constant: the constant
\* opened by the program's quote ends at the program's closing quote.
C7_PromptStaysInsideLiteral ==
    (last.kind = "message" /\ last.completeRequests > 0) =>
        LiteralEnd(last.query) = Len(last.query) - 1

\* C8: reversing the escape on the escaped prompt gives the prompt back.
C8_EscapeRoundTrip ==
    (last.kind = "message" /\ last.completeRequests > 0) =>
        Unescape(Interpolated(last.query)) = last.qa_context

\* A prompt with two quotes in a row in the message and a quote in the
\* matched answer was escaped and sent.
C8_Witness ==
    /\ last.kind = "message"
    /\ last.completeRequests > 0
    /\ Contains(last.prompt, <<"'", "'">>)
    /\ Contains(last.a, <<"'">>)
    /\ Interpolated(last.query) # last.qa_context

-----------------------------------------------------------------------------
(* The conversation *)

\* The two entries a processed message is to leave behind the log it found
GrewByUserThen(content) ==
    messages = last.logBefore \o <<User(last.prompt), Assistant(content)>>

\* C1: every submitted message adds exactly a user entry holding it and then
\* an assistant entry, so the log always alternates user, assistant and has
\* even length.
C1_TwoEntriesPerMessage ==
    /\ last.kind = "message" =>
           /\ Len(messages) = Len(last.logBefore) + 2
           /\ messages[Len(messages) - 1] = User(last.prompt)
           /\ messages[Len(messages)].role = "assistant"
    /\ Len(messages) % 2 = 0
    /\ \A i \in 1..Len(messages) :
           messages[i].role = IF i % 2 = 1 THEN "user" ELSE "assistant"

\* C2: when the completion call of a turn fails, the turn ends with the user
\* entry followed by exactly one assistant entry that starts with the error
\* marker and carries the failure's message; one completion request for the
\* prompt was sent, and no exception left the script.
C2_FailureBecomesOneErrorReply ==
    (last.kind = "message" /\ last.completeRequests > 0 /\ ~last.outcome.ok) =>
        /\ last.completeRequests = 1
        /\ ~last.raised
        /\ Len(messages) = Len(last.logBefore) + 2
        /\ GrewByUserThen(messages[Len(messages)].content)
        /\ Head(messages[Len(messages)].content) = "ERR_CORTEX_ERROR"
        /\ Tail(messages[Len(messages)].content) = last.outcome.text

\* A turn whose completion failed was followed by another handled message.
C2_Witness ==
    /\ last.kind = "message"
    /\ last.completeRequests = 1
    /\ ~last.outcome.ok
    /\ Len(last.logBefore) = 2
    /\ Head(last.logBefore[2].content) = "ERR_CORTEX_ERROR"
    /\ Len(messages) = 4

C4_EmptyCorpusErrorSurfaced ==
    (last.kind = "message" /\ last.df = <<>>) =>
        /\ ~last.raised
        /\ Len(messages) = Len(last.logBefore) + 2
        /\ messages[Len(messages)].role = "assistant"

\* C9: the probe is sent once; later messages send no further probe.
C9_ProbeSentOnce == probeRequests = 1

\* C10: the log before any step is a prefix of the log after it.
C10_AppendOnly == [][IsPrefix(messages, messages')]_vars

\* "Reload Data" was clicked with entries in the log, and they are all there.
C10_Witness ==
    /\ last.kind = "reload"
    /\ Len(messages) >= 2
    /\ messages = last.logBefore

=============================================================================
